---------------------------- MODULE Spec2Model ----------------------------
(***************************************************************************)
(* A model of parfait/layer_wrappers.py: the layer directory accessor      *)
(* (map_layers, layer_from_name, add_layer), the layer factory             *)
(* (new_vector_layer and its wrappers) and the layer loader (load_layer,   *)
(* load_layer_no_crs_dialog, load_vector).                                 *)
(*                                                                         *)
(* Python values are modelled as follows.  A string is a sequence of       *)
(* one-character strings.  An optional value is a sequence of length 0     *)
(* (None) or 1.  The outcome of a call is a record [exc, msg, value]:      *)
(* exc = "" and value = <<v>> for a return of v, and exc the exception     *)
(* class for a raise.                                                      *)
(***************************************************************************)
EXTENDS Integers, Sequences, FiniteSets, TLC

VARIABLES
    registry,   \* QgsMapLayerRegistry: the loaded layers, in the order mapLayers().values() yields them
    settings,   \* QSettings value of '/Projections/defaultBehaviour'
    drivers,    \* the OGR vector drivers the host is built with
    disk,       \* vector files written by QgsVectorFileWriter: path -> driver
    fs,         \* what the host's drivers make of each path: "vector", "raster", "both", "none"
    threads,    \* per thread: the frame of its call of load_layer_no_crs_dialog
    ret         \* the record of the last completed call

vars == <<registry, settings, drivers, disk, fs, threads, ret>>

-----------------------------------------------------------------------------
(* Bounds *)

MaxLayers == 2
MaxFiles == 1
NumThreads == 2

-----------------------------------------------------------------------------
(* Python built-ins used by the module *)

None == <<>>
Some(v) == <<v>>

Ok(v) == [exc |-> "", msg |-> <<>>, value |-> <<v>>]
Raise(e, m) == [exc |-> e, msg |-> m, value |-> <<>>]

Min(a, b) == IF a < b THEN a ELSE b
Max(a, b) == IF a > b THEN a ELSE b

\* s[a:b] with 0-based, possibly negative, indices
PySlice(s, a, b) ==
    LET n == Len(s)
        lo == IF a < 0 THEN Max(a + n, 0) ELSE Min(a, n)
        hi == IF b < 0 THEN Max(b + n, 0) ELSE Min(b, n)
    IN SubSeq(s, lo + 1, hi)

\* s[a:]
PyFrom(s, a) == PySlice(s, a, Len(s))

\* s.find(sub, i): the 0-based index of the first occurrence at or after i,
\* -1 when there is none
RECURSIVE PyFindFrom(_, _, _)
PyFindFrom(s, sub, i) ==
    IF i + Len(sub) > Len(s) THEN -1
    ELSE IF SubSeq(s, i + 1, i + Len(sub)) = sub THEN i
    ELSE PyFindFrom(s, sub, i + 1)

PyFind(s, sub) == PyFindFrom(s, sub, 0)

\* s.rfind(sub, 0, i + len(sub)): the 0-based index of the last occurrence at or
\* before i, -1 when there is none
RECURSIVE PyRFindFrom(_, _, _)
PyRFindFrom(s, sub, i) ==
    IF i < 0 THEN -1
    ELSE IF SubSeq(s, i + 1, i + Len(sub)) = sub THEN i
    ELSE PyRFindFrom(s, sub, i - 1)

PyRFind(s, sub) == PyRFindFrom(s, sub, Len(s) - Len(sub))

\* os.path.basename (posixpath): what follows the last '/'
basename(p) == PyFrom(p, PyRFind(p, <<"/">>) + 1)

\* os.path.splitext (genericpath._splitext): the extension starts at the last
\* dot of the last path component, leading dots of that component not counted
splitext(p) ==
    LET sepIndex == PyRFind(p, <<"/">>)
        dotIndex == PyRFind(p, <<".">>)
    IN IF dotIndex > sepIndex
          /\ \E k \in (sepIndex + 1)..(dotIndex - 1) : p[k + 1] # "."
       THEN <<PySlice(p, 0, dotIndex), PyFrom(p, dotIndex)>>
       ELSE <<p, <<>> >>

\* re.match(p, s) is not None, for patterns of literal characters, '.' and a
\* trailing '*' on either: the pattern must match a prefix of s
RECURSIVE ReMatch(_, _)
ReMatch(p, s) ==
    IF p = <<>> THEN TRUE
    ELSE LET c == Head(p)
             starred == Len(p) >= 2 /\ p[2] = "*"
             hit == s # <<>> /\ (c = "." \/ c = Head(s))
         IN IF starred
            THEN ReMatch(SubSeq(p, 3, Len(p)), s) \/ (hit /\ ReMatch(p, Tail(s)))
            ELSE hit /\ ReMatch(Tail(p), Tail(s))

\* Python truth value of an optional string or an optional list
Truthy(opt) == opt # None /\ opt[1] # <<>>

InList(x, xs) == \E i \in 1..Len(xs) : xs[i] = x

-----------------------------------------------------------------------------
(* The names bound in the module's namespace *)

\* bound by the import statements and the module-level definitions
ModuleGlobals ==
    {"os", "re", "QtGui", "QtCore",
     "QgsMapLayerRegistry", "QgsField", "QgsFields", "QgsVectorLayer",
     "QgsRasterLayer", "QgsVectorFileWriter", "QgsCoordinateReferenceSystem",
     "QGis", "QgsMapLayer",
     "_layerreg", "map_layers", "add_layer", "TYPE_MAP", "GEOM_TYPE_MAP",
     "_toQgsField", "_fieldName", "new_points_layer", "new_lines_layer",
     "new_polygons_layer", "new_vector_layer", "create_wms_layer",
     "create_wfs_layer", "layer_from_name", "load_layer",
     "load_layer_no_crs_dialog", "load_vector"}

\* a global name resolves when it is bound
Bound(name) == name \in ModuleGlobals

-----------------------------------------------------------------------------
(* Layer directory accessor *)

LayerTypes == {"VectorLayer", "RasterLayer"}

LayerNames == {<<"B">>, <<"B", "o">>, <<"o", "B">>}

RegLayer(id, name, type) == [id |-> id, name |-> name, type |-> type]

\* the types argument as map_layers uses it: a single type becomes a list
NormTypes(types) ==
    IF types # None /\ ~types[1].isList
    THEN Some([isList |-> TRUE, items |-> <<types[1].item>>])
    ELSE types

TypesTruthy(types) == types # None /\ types[1].items # <<>>

\* mutant of map_layers: the type filter is applied to the layers the name
\* filter kept (an intersection) when both are given
map_layers_intersection(layers, name, types0) ==
    LET types == NormTypes(types0)
        nameHit(l) == ReMatch(name[1], l.name)
        typeHit(l) == InList(l.type, types[1].items)
        named == IF Truthy(name) THEN SelectSeq(layers, nameHit) ELSE layers
    IN IF Truthy(name) \/ TypesTruthy(types)
       THEN IF TypesTruthy(types) THEN SelectSeq(named, typeHit) ELSE named
       ELSE layers

map_layers(layers, name, types0) ==
    LET types == NormTypes(types0)
        nameHit(l) == ReMatch(name[1], l.name)
        typeHit(l) == InList(l.type, types[1].items)
    IN IF Truthy(name) \/ TypesTruthy(types)
       THEN (IF Truthy(name) THEN SelectSeq(layers, nameHit) ELSE <<>>)
            \o (IF TypesTruthy(types) THEN SelectSeq(layers, typeHit) ELSE <<>>)
       ELSE layers

\* mutant of layer_from_name: the last layer of that name is returned
RECURSIVE layer_from_name_last(_, _)
layer_from_name_last(layers, name) ==
    IF layers = <<>> THEN None
    ELSE IF layers[Len(layers)].name = name THEN Some(layers[Len(layers)])
    ELSE layer_from_name_last(SubSeq(layers, 1, Len(layers) - 1), name)

RECURSIVE layer_from_name(_, _)
layer_from_name(layers, name) ==
    IF layers = <<>> THEN None
    ELSE IF Head(layers).name = name THEN Some(Head(layers))
    ELSE layer_from_name(Tail(layers), name)

\* QgsMapLayerRegistry.addMapLayers: a layer whose id is registered is skipped;
\* where a new layer lands in the iteration order of mapLayers() is not fixed
RECURSIVE addMapLayers(_, _)
addMapLayers(reg, ls) ==
    IF ls = <<>> THEN {reg}
    ELSE LET l == Head(ls)
             next == IF \E i \in 1..Len(reg) : reg[i].id = l.id
                     THEN {reg}
                     ELSE {SubSeq(reg, 1, k) \o <<l>> \o SubSeq(reg, k + 1, Len(reg)) :
                               k \in 0..Len(reg)}
         IN UNION {addMapLayers(r, Tail(ls)) : r \in next}

\* add_layer: a single layer becomes a one-element list
add_layer_arg(layer) == IF ~layer.isIter THEN <<layer.item>> ELSE layer.items

\* the calls of the directory accessor
DirNameArgs == {None, Some(<<>>), Some(<<"B">>), Some(<<".", "*", "B">>), Some(<<"B", "o">>)}

DirTypeArgs ==
    {None}
    \cup {Some([isList |-> FALSE, item |-> t, items |-> <<>>]) : t \in LayerTypes}
    \cup {Some([isList |-> TRUE, item |-> "", items |-> ts]) :
              ts \in {<<>>, <<"RasterLayer">>, <<"RasterLayer", "VectorLayer">>}}

LookupNames == LayerNames \cup {<<"o">>}

MapLayers ==
    /\ \E name \in DirNameArgs, types \in DirTypeArgs :
         ret' = [op |-> "map_layers", name |-> name, types |-> types,
                 layers |-> registry,
                 result |-> Ok(map_layers(registry, name, types))]
    /\ UNCHANGED <<registry, settings, drivers, disk, fs, threads>>

LayerFromName ==
    /\ \E name \in LookupNames :
         ret' = [op |-> "layer_from_name", name |-> name, layers |-> registry,
                 result |-> Ok(layer_from_name(registry, name))]
    /\ UNCHANGED <<registry, settings, drivers, disk, fs, threads>>

\* add_layer with one freshly constructed layer, or a list of a fresh layer
\* and one that may be registered already
AddLayer ==
    /\ Len(registry) < MaxLayers
    /\ \E name \in LayerNames, type \in LayerTypes, asList \in BOOLEAN :
         LET fresh == RegLayer(Len(registry) + 1, name, type)
             args == IF asList
                     THEN {[isIter |-> TRUE, item |-> fresh, items |-> <<fresh>> \o again] :
                              again \in {<<>>} \cup {<<registry[i]>> : i \in 1..Len(registry)}}
                     ELSE {[isIter |-> FALSE, item |-> fresh, items |-> <<>>]}
         IN \E layer \in args :
              /\ registry' \in addMapLayers(registry, add_layer_arg(layer))
              /\ ret' = [op |-> "add_layer", layer |-> layer,
                         result |-> Ok(add_layer_arg(layer))]
    /\ UNCHANGED <<settings, drivers, disk, fs, threads>>

NoCall == [op |-> "none"]

InitDirectory ==
    /\ registry = <<>>
    /\ settings = "prompt"
    /\ drivers = {}
    /\ disk = {}
    /\ fs = <<>>
    /\ threads = <<>>
    /\ ret = NoCall

NextDirectory == AddLayer \/ MapLayers \/ LayerFromName

SpecDirectory == InitDirectory /\ [][NextDirectory]_vars

-----------------------------------------------------------------------------
(* Layer factory *)

\* TYPE_MAP: Python type -> QVariant type
TYPE_MAP == [t \in {"str", "float", "int", "bool"} |->
                CASE t = "str" -> "QVariant.String"
                  [] t = "float" -> "QVariant.Double"
                  [] t = "int" -> "QVariant.Int"
                  [] t = "bool" -> "QVariant.Bool"]

\* GEOM_TYPE_MAP: WKB type -> the label of the memory provider
GEOM_TYPE_MAP ==
    [g \in {"WKBPoint", "WKBLineString", "WKBPolygon",
            "WKBMultiPoint", "WKBMultiLineString", "WKBMultiPolygon"} |->
        CASE g = "WKBPoint" -> <<"P", "o", "i", "n", "t">>
          [] g = "WKBLineString" -> <<"L", "i", "n", "e", "S", "t", "r", "i", "n", "g">>
          [] g = "WKBPolygon" -> <<"P", "o", "l", "y", "g", "o", "n">>
          [] g = "WKBMultiPoint" -> <<"M", "u", "l", "t", "i", "P", "o", "i", "n", "t">>
          [] g = "WKBMultiLineString" -> <<"M", "u", "l", "t", "i", "L", "i", "n", "e", "S", "t", "r", "i", "n", "g">>
          [] g = "WKBMultiPolygon" -> <<"M", "u", "l", "t", "i", "P", "o", "l", "y", "g", "o", "n">>]

\* the attributes of the host's QGis class that the module reads
QGisAttrs == DOMAIN GEOM_TYPE_MAP

\* d.get(k, default)
DictGet(d, k, default) == IF k \in DOMAIN d THEN d[k] ELSE default

\* an item of the fields argument: a QgsField, a (name, type) tuple, or a string
QgsField(name, type) == [kind |-> "QgsField", name |-> name, type |-> type]
FieldTuple(name, type) == [kind |-> "tuple", name |-> name, type |-> type]
FieldStr(text) == [kind |-> "str", name |-> text, type |-> ""]

\* f[0] and f[1] of an item that is no QgsField; a string is indexed by character,
\* and a character is no key of TYPE_MAP
\* mutant of _toQgsField: TYPE_MAP.get without the default
_toQgsField_no_default(f) ==
    IF f.kind = "QgsField" THEN f
    ELSE IF f.kind = "tuple"
    THEN QgsField(f.name, DictGet(TYPE_MAP, f.type, "None"))
    ELSE QgsField(<<f.name[1]>>, "None")

_toQgsField(f) ==
    IF f.kind = "QgsField" THEN f
    ELSE IF f.kind = "tuple"
    THEN QgsField(f.name, DictGet(TYPE_MAP, f.type, "QVariant.String"))
    ELSE QgsField(<<f.name[1]>>, "QVariant.String")

\* f[1] of a string shorter than two characters raises IndexError
IndexFails(f) == f.kind = "str" /\ Len(f.name) < 2

\* QgsCoordinateReferenceSystem(authid): valid when the host knows the code
KnownAuthIds == {<<"E", "P", "S", "G", ":", "4", "3", "2", "6">>}

QgsCoordinateReferenceSystem(s) ==
    [isString |-> FALSE,
     authid |-> IF s \in KnownAuthIds THEN s ELSE <<>>,
     valid |-> s \in KnownAuthIds]

\* QgsVectorLayer(source, name, provider) and QgsRasterLayer(source, name)
QgsVectorLayer(source, name, provider, valid) ==
    [cls |-> "QgsVectorLayer", source |-> source, name |-> name,
     provider |-> provider, valid |-> valid]

QgsRasterLayer(source, name, valid) ==
    [cls |-> "QgsRasterLayer", source |-> source, name |-> name,
     provider |-> "gdal", valid |-> valid]

\* the extension new_vector_layer reads off a filter string such as
\* "GML [OGR] (*.gml *.GML)": what follows the first "*." up to the next blank
FilterExtension(key) ==
    LET e1 == PyFrom(key, PyFind(key, <<"*", ".">>) + 2)
    IN PySlice(e1, 0, PyFind(e1, <<" ">>))

\* OGRCodes: extension -> driver, built from the host's filters and formats
OGRCodes(fmts) ==
    [e \in {FilterExtension(k) : k \in DOMAIN fmts} |->
        fmts[CHOOSE k \in DOMAIN fmts : FilterExtension(k) = e]]

\* the host's filter string of each OGR driver
FilterShp == <<"E", "S", "R", "I", " ", "S", "h", "a", "p", "e", "f", "i", "l", "e", " ", "[", "O", "G", "R", "]", " ", "(", "*", ".", "s", "h", "p", " ", "*", ".", "S", "H", "P", ")">>
FilterGml == <<"G", "M", "L", " ", "[", "O", "G", "R", "]", " ", "(", "*", ".", "g", "m", "l", " ", "*", ".", "G", "M", "L", ")">>

\* the sets of drivers a host may be built with: the shapefile driver is in all
HostBuilds == {{"ESRI Shapefile"}, {"ESRI Shapefile", "GML"}}

\* QgsVectorFileWriter.supportedFiltersAndFormats(): filter string -> driver
supportedFiltersAndFormats(drvs) ==
    [k \in {FilterShp} \cup (IF "GML" \in drvs THEN {FilterGml} ELSE {}) |->
        IF k = FilterShp THEN "ESRI Shapefile" ELSE "GML"]

\* the table new_vector_layer builds at each call, for each build of the host
OGRCodesFor == [drvs \in HostBuilds |-> OGRCodes(supportedFiltersAndFormats(drvs))]

\* "&".join(xs)
RECURSIVE Join(_, _)
Join(sep, xs) ==
    IF xs = <<>> THEN <<>>
    ELSE IF Len(xs) = 1 THEN xs[1]
    ELSE xs[1] \o sep \o Join(sep, Tail(xs))

OnDisk(dsk, path) == \E d \in dsk : d[1] = path

\* the host writes an empty file of the driver's format at the path
WriteFile(dsk, path, driver) == {d \in dsk : d[1] # path} \cup {<<path, driver>>}

\* the extension of the filename, and the filename, as new_vector_layer uses
\* them: an extension that is no key of OGRCodes becomes 'shp', appended
\* mutant of coerce_extension: the driver falls back to the shapefile's, and
\* the filename is left as given
coerce_extension_no_append(filename, codes) ==
    LET extension == PyFrom(splitext(filename)[2], 1)
    IN IF extension \notin DOMAIN codes
       THEN [extension |-> <<"s", "h", "p">>, filename |-> filename]
       ELSE [extension |-> extension, filename |-> filename]

coerce_extension(filename, codes) ==
    LET extension == PyFrom(splitext(filename)[2], 1)
    IN IF extension \notin DOMAIN codes
       THEN [extension |-> <<"s", "h", "p">>, filename |-> filename \o <<".", "s", "h", "p">>]
       ELSE [extension |-> extension, filename |-> filename]

\* new_vector_layer with filename None: the memory layer
memory_layer(fields, geometryType, crs) ==
    IF ~Bound("self") THEN Raise("NameError", <<"self">>)
    ELSE IF geometryType \notin DOMAIN GEOM_TYPE_MAP THEN Raise("KeyError", <<>>)
    ELSE IF \E i \in 1..Len(fields.items) : fields.items[i].kind # "str"
    THEN Raise("TypeError", <<>>)
    ELSE LET uri0 == GEOM_TYPE_MAP[geometryType]
             uri1 == IF crs.valid THEN uri0 \o <<"?", "c", "r", "s", "=">> \o crs.authid \o <<"&">> ELSE uri0
             fieldsdesc == [i \in 1..Len(fields.items) |-> <<"f", "i", "e", "l", "d", "=">> \o fields.items[i].name]
             uri == uri1 \o Join(<<"&">>, fieldsdesc)
         IN Ok(QgsVectorLayer(uri, <<"m", "e", "m", "_", "l", "a", "y", "e", "r">>, "memory", TRUE))

\* new_vector_layer: the outcome, the disk after the call, and the
\* arguments the file writer was constructed with (None when it was not)
new_vector_layer(filename, fields, geometryType, crs0, encoding, drvs, dsk) ==
    LET crs == IF crs0.isString THEN QgsCoordinateReferenceSystem(crs0.authid) ELSE crs0
    IN IF filename = None
       THEN [result |-> memory_layer(fields, geometryType, crs),
             disk |-> dsk, writer |-> None]
       ELSE LET codes == OGRCodesFor[drvs]
                coerced == coerce_extension(filename[1], codes)
                extension == coerced.extension
                path == coerced.filename
                qgsfields == IF fields.isQgsFields THEN fields.items
                             ELSE [i \in 1..Len(fields.items) |-> _toQgsField(fields.items[i])]
            IN IF ~fields.isQgsFields
                  /\ \E i \in 1..Len(fields.items) : IndexFails(fields.items[i])
               THEN [result |-> Raise("IndexError", <<>>), disk |-> dsk, writer |-> None]
               ELSE IF extension \notin DOMAIN codes
               THEN [result |-> Raise("KeyError", extension), disk |-> dsk, writer |-> None]
               ELSE LET written == WriteFile(dsk, path, codes[extension])
                    IN [result |-> Ok(QgsVectorLayer(path, basename(path), "ogr",
                                                     OnDisk(written, path))),
                        disk |-> written,
                        writer |-> Some([filename |-> path, encoding |-> encoding,
                                         fields |-> qgsfields,
                                         geometryType |-> geometryType, crs |-> crs,
                                         driver |-> codes[extension]])]

\* new_points_layer, new_lines_layer, new_polygons_layer
new_points_layer(filename, fields, crs, encoding, drvs, dsk) ==
    IF ~Bound("newVectorLayer")
    THEN [result |-> Raise("NameError", <<"newVectorLayer">>), disk |-> dsk, writer |-> None]
    ELSE IF "WKBPoint" \notin QGisAttrs
    THEN [result |-> Raise("AttributeError", <<"WKBPoint">>), disk |-> dsk, writer |-> None]
    ELSE new_vector_layer(filename, fields, "WKBPoint", crs, encoding, drvs, dsk)

new_lines_layer(filename, fields, crs, encoding, drvs, dsk) ==
    IF ~Bound("newVectorLayer")
    THEN [result |-> Raise("NameError", <<"newVectorLayer">>), disk |-> dsk, writer |-> None]
    ELSE IF "WKBLine" \notin QGisAttrs
    THEN [result |-> Raise("AttributeError", <<"WKBLine">>), disk |-> dsk, writer |-> None]
    ELSE new_vector_layer(filename, fields, "WKBLine", crs, encoding, drvs, dsk)

new_polygons_layer(filename, fields, crs, encoding, drvs, dsk) ==
    IF ~Bound("newVectorLayer")
    THEN [result |-> Raise("NameError", <<"newVectorLayer">>), disk |-> dsk, writer |-> None]
    ELSE IF "WKBPolygon" \notin QGisAttrs
    THEN [result |-> Raise("AttributeError", <<"WKBPolygon">>), disk |-> dsk, writer |-> None]
    ELSE new_vector_layer(filename, fields, "WKBPolygon", crs, encoding, drvs, dsk)


\* the calls of the layer factory
FactoryFilenames ==
    {None, Some(<<"o", ".", "s", "h", "p">>), Some(<<"o", ".", "x", "y", "z">>), Some(<<"o">>), Some(<<"d", ".", "x", "/", "o">>),
     Some(<<"o", ".", "g", "m", "l">>), Some(<<"o", ".", "S", "H", "P">>), Some(<<".", "s", "h", "p">>)}

FieldArgs ==
    {[isQgsFields |-> FALSE, items |-> <<>>],
     [isQgsFields |-> FALSE,
      items |-> <<FieldTuple(<<"a">>, "str"), FieldTuple(<<"b">>, "float"),
                  FieldTuple(<<"c">>, "unicode")>>],
     [isQgsFields |-> FALSE,
      items |-> <<FieldTuple(<<"a">>, "int"), FieldTuple(<<"b">>, "bool"),
                  QgsField(<<"q">>, "QVariant.Double")>>],
     [isQgsFields |-> FALSE, items |-> <<FieldStr(<<"n", ":", "i", "n", "t", "e", "g", "e", "r">>)>>],
     [isQgsFields |-> TRUE, items |-> <<QgsField(<<"q">>, "QVariant.Int")>>]}

GeomArgs == {"WKBPoint", "WKBMultiPolygon"}

CrsArgs ==
    {[isString |-> TRUE, authid |-> <<"E", "P", "S", "G", ":", "4", "3", "2", "6">>, valid |-> FALSE],
     [isString |-> FALSE, authid |-> <<>>, valid |-> FALSE]}

DefaultEncoding == "utf-8"

WrapperFilenames == {None, Some(<<"o", ".", "s", "h", "p">>), Some(<<"o", ".", "x", "y", "z">>)}

WrapperFieldArgs == {f \in FieldArgs : f.isQgsFields \/ f.items = <<>>}

NewVectorLayer ==
    /\ \E filename \in FactoryFilenames, fields \in FieldArgs,
          geometryType \in GeomArgs, crs \in CrsArgs :
         LET out == new_vector_layer(filename, fields, geometryType, crs,
                                     DefaultEncoding, drivers, disk)
         IN /\ Cardinality(out.disk) <= MaxFiles
            /\ disk' = out.disk
            /\ ret' = [op |-> "new_vector_layer", filename |-> filename,
                       fields |-> fields, geometryType |-> geometryType, crs |-> crs,
                       encoding |-> DefaultEncoding, before |-> disk,
                       writer |-> out.writer, result |-> out.result]
    /\ UNCHANGED <<registry, settings, drivers, fs, threads>>

WrapperCall(op, out, filename, fields, crs) ==
    /\ Cardinality(out.disk) <= MaxFiles
    /\ disk' = out.disk
    /\ ret' = [op |-> op, filename |-> filename, fields |-> fields,
               geometryType |-> "", crs |-> crs, encoding |-> DefaultEncoding,
               before |-> disk, writer |-> out.writer, result |-> out.result]
    /\ UNCHANGED <<registry, settings, drivers, fs, threads>>

NewPointsLayer ==
    \E filename \in WrapperFilenames, fields \in WrapperFieldArgs, crs \in CrsArgs :
        WrapperCall("new_points_layer",
                    new_points_layer(filename, fields, crs, DefaultEncoding, drivers, disk),
                    filename, fields, crs)

NewLinesLayer ==
    \E filename \in WrapperFilenames, fields \in WrapperFieldArgs, crs \in CrsArgs :
        WrapperCall("new_lines_layer",
                    new_lines_layer(filename, fields, crs, DefaultEncoding, drivers, disk),
                    filename, fields, crs)

NewPolygonsLayer ==
    \E filename \in WrapperFilenames, fields \in WrapperFieldArgs, crs \in CrsArgs :
        WrapperCall("new_polygons_layer",
                    new_polygons_layer(filename, fields, crs, DefaultEncoding, drivers, disk),
                    filename, fields, crs)

InitFactory ==
    /\ registry = <<>>
    /\ settings = "prompt"
    /\ drivers \in HostBuilds
    /\ disk = {}
    /\ fs = <<>>
    /\ threads = <<>>
    /\ ret = NoCall

NextFactory == NewVectorLayer \/ NewPointsLayer \/ NewLinesLayer \/ NewPolygonsLayer

SpecFactory == InitFactory /\ [][NextFactory]_vars

-----------------------------------------------------------------------------
(* Layer loader *)

\* whether the host's OGR / GDAL drivers open the path
VectorOpens(fsys, path) == path \in DOMAIN fsys /\ fsys[path] \in {"vector", "both"}
RasterOpens(fsys, path) == path \in DOMAIN fsys /\ fsys[path] \in {"raster", "both"}

\* mutant of load_layer: the raster layer is returned without the validity check
load_layer_unchecked_raster(filename, name0, fsys) ==
    LET name == IF Truthy(name0) THEN name0[1] ELSE splitext(basename(filename))[1]
        vlayer == QgsVectorLayer(filename, name, "ogr", VectorOpens(fsys, filename))
        rlayer == QgsRasterLayer(filename, name, RasterOpens(fsys, filename))
    IN IF ~vlayer.valid THEN Ok(rlayer) ELSE Ok(vlayer)

load_layer(filename, name0, fsys) ==
    LET name == IF Truthy(name0) THEN name0[1] ELSE splitext(basename(filename))[1]
        vlayer == QgsVectorLayer(filename, name, "ogr", VectorOpens(fsys, filename))
        rlayer == QgsRasterLayer(filename, name, RasterOpens(fsys, filename))
    IN IF ~vlayer.valid
       THEN IF ~rlayer.valid
            THEN Raise("RuntimeError", <<"C", "o", "u", "l", "d", " ", "n", "o", "t", " ", "l", "o", "a", "d", " ", "l", "a", "y", "e", "r", ":", " ">> \o filename)
            ELSE Ok(rlayer)
       ELSE Ok(vlayer)

load_vector(path, name0, provider, fsys) ==
    LET name == IF ~Truthy(name0) THEN basename(path) ELSE name0[1]
    IN Ok(QgsVectorLayer(path, name, provider, provider = "ogr" /\ VectorOpens(fsys, path)))

\* the calls of the layer loader
LoadPaths == {<<"d", "/", "a", ".", "s", "h", "p">>, <<"b", ".", "t", "i", "f">>}

LoadNames == {None, Some(<<"n">>)}

FileKinds == {"vector", "raster", "both", "none"}

SettingValues == {"", "prompt", "useGlobal"}

Threads == 1..NumThreads

IdleFrame ==
    [pc |-> "idle", filename |-> <<>>, name |-> None, entry |-> "",
     prjSetting |-> "", layer |-> None, outcome |-> None]

LoadLayer ==
    /\ \E filename \in LoadPaths, name \in LoadNames :
         ret' = [op |-> "load_layer", filename |-> filename, name |-> name,
                 result |-> load_layer(filename, name, fs)]
    /\ UNCHANGED <<registry, settings, drivers, disk, fs, threads>>

LoadVector ==
    /\ \E path \in LoadPaths, name \in LoadNames :
         ret' = [op |-> "load_vector", filename |-> path, name |-> name,
                 result |-> load_vector(path, name, "ogr", fs)]
    /\ UNCHANGED <<registry, settings, drivers, disk, fs, threads>>

\* a thread calls load_layer_no_crs_dialog(filename, name); entry keeps the
\* value the setting has at the call
CallNoCrsDialog(t) ==
    /\ threads[t].pc \in {"idle", "done"}
    /\ \E filename \in LoadPaths, name \in LoadNames :
         threads' = [threads EXCEPT ![t] =
                        [IdleFrame EXCEPT !.pc = "l176", !.filename = filename,
                                          !.name = name, !.entry = settings]]
    /\ UNCHANGED <<registry, settings, drivers, disk, fs, ret>>

\* a thread runs the next line of load_layer_no_crs_dialog
StepNoCrsDialog(t) ==
    LET f == threads[t]
        goto(frame) == threads' = [threads EXCEPT ![t] = frame]
    IN /\ f.pc \notin {"idle", "done"}
       /\ CASE f.pc = "l176" ->
                 \* settings = QTCore.QSettings()
                 /\ IF Bound("QTCore")
                    THEN goto([f EXCEPT !.pc = "l177"])
                    ELSE goto([f EXCEPT !.pc = "done",
                                        !.outcome = Some(Raise("NameError", <<"QTCore">>))])
                 /\ UNCHANGED settings
            [] f.pc = "l177" ->
                 \* prjSetting = settings.value('/Projections/defaultBehaviour')
                 /\ goto([f EXCEPT !.pc = "l178", !.prjSetting = settings])
                 /\ UNCHANGED settings
            [] f.pc = "l178" ->
                 \* settings.setValue('/Projections/defaultBehaviour', '')
                 /\ settings' = ""
                 /\ goto([f EXCEPT !.pc = "l179"])
            [] f.pc = "l179" ->
                 \* layer = load_layer(filename, name)
                 /\ LET out == load_layer(f.filename, f.name, fs)
                    IN IF out.exc # ""
                       THEN goto([f EXCEPT !.pc = "done", !.outcome = Some(out)])
                       ELSE goto([f EXCEPT !.pc = "l180", !.layer = out.value])
                 /\ UNCHANGED settings
            [] f.pc = "l180" ->
                 \* settings.setValue('/Projections/defaultBehaviour', prjSetting)
                 /\ settings' = f.prjSetting
                 /\ goto([f EXCEPT !.pc = "l181"])
            [] f.pc = "l181" ->
                 \* return layer
                 /\ goto([f EXCEPT !.pc = "done", !.outcome = Some(Ok(f.layer[1]))])
                 /\ UNCHANGED settings
       /\ UNCHANGED <<registry, drivers, disk, fs, ret>>

InitLoader ==
    /\ registry = <<>>
    /\ settings \in SettingValues
    /\ drivers = {}
    /\ disk = {}
    /\ fs \in [LoadPaths -> FileKinds]
    /\ threads = [t \in Threads |-> IdleFrame]
    /\ ret = NoCall

NextLoader ==
    \/ LoadLayer
    \/ LoadVector
    \/ \E t \in Threads : CallNoCrsDialog(t)
    \/ \E t \in Threads : StepNoCrsDialog(t)

SpecLoader == InitLoader /\ [][NextLoader]_vars

-----------------------------------------------------------------------------
(* Properties of the layer directory accessor (SpecDirectory) *)

\* the j-th smallest element of a set of indices
NthOf(idx, j) == CHOOSE i \in idx : Cardinality({k \in idx : k <= i}) = j

\* out is one filter pass over in: the elements satisfying P, in in's order
IsPass(out, in, P(_)) ==
    LET idx == {i \in 1..Len(in) : P(in[i])}
    IN /\ Len(out) = Cardinality(idx)
       /\ \A j \in 1..Len(out) : out[j] = in[NthOf(idx, j)]

\* the list of types a types argument stands for
TypeList(types) ==
    IF types = None THEN <<>>
    ELSE IF types[1].isList THEN types[1].items ELSE <<types[1].item>>

\* the result of the call r is the name pass followed by the type pass, or
\* all the layers when neither filter is given
UnionOfPasses(r, nameGiven, typesGiven) ==
    LET out == r.result.value[1]
        nameP(l) == nameGiven /\ ReMatch(r.name[1], l.name)
        typeP(l) == typesGiven /\ InList(l.type, TypeList(r.types))
    IN /\ r.result.exc = ""
       /\ IF ~nameGiven /\ ~typesGiven
          THEN out = r.layers
          ELSE \E k \in 0..Len(out) :
                  /\ IsPass(SubSeq(out, 1, k), r.layers, nameP)
                  /\ IsPass(SubSeq(out, k + 1, Len(out)), r.layers, typeP)

\* C1, as stated: map_layers returns the layers whose name matches the
\* pattern at its start followed by the layers whose type is in the given
\* type or list of types, a filter counting as given when it is not None, and
\* all the loaded layers when neither is given.
C1_UnionGivenMeansNotNone ==
    ret.op = "map_layers" =>
        UnionOfPasses(ret, ret.name # None, ret.types # None)

\* C1, amended: the same, a filter counting as given when it is neither None
\* nor empty (an empty pattern, an empty list of types): map_layers returns
\* the name pass followed by the type pass, and all the loaded layers when
\* neither a non-empty pattern nor a non-empty list of types is given.
C1_UnionOfNonEmptyFilters ==
    ret.op = "map_layers" =>
        UnionOfPasses(ret, ret.name # None /\ ret.name[1] # <<>>,
                      TypeList(ret.types) # <<>>)

\* a call with both filters whose result holds a layer twice: the result is
\* longer than the registry
C1_Witness ==
    /\ ret.op = "map_layers"
    /\ ret.name = Some(<<"B">>)
    /\ TypeList(ret.types) = <<"RasterLayer", "VectorLayer">>
    /\ Len(ret.layers) = 2
    /\ Len(ret.result.value[1]) > Len(ret.layers)

\* C7: layer_from_name(X) returns the first layer, in the registry's order,
\* whose name is X, returns None exactly when no loaded layer has that name,
\* and never raises.
C7_FirstLayerOfThatName ==
    ret.op = "layer_from_name" =>
        LET idx == {i \in 1..Len(ret.layers) : ret.layers[i].name = ret.name}
        IN /\ ret.result.exc = ""
           /\ (ret.result.value[1] = None) <=> (idx = {})
           /\ idx # {} => ret.result.value[1] = Some(ret.layers[NthOf(idx, 1)])

\* a lookup of a name two loaded layers share
C7_Witness ==
    /\ ret.op = "layer_from_name"
    /\ Cardinality({i \in 1..Len(ret.layers) : ret.layers[i].name = ret.name}) = 2
    /\ ret.result.value[1] = Some(ret.layers[1])

-----------------------------------------------------------------------------
(* Properties of the layer factory (SpecFactory) *)

\* the extension of a path: what follows the last dot of its last component
ExtensionOf(path) == PyFrom(splitext(path)[2], 1)

\* the host's filter k lists "*.e"
Lists(k, e) == PyFind(k, <<"*", ".">> \o e \o <<" ">>) >= 0 \/ PyFind(k, <<"*", ".">> \o e \o <<")">>) >= 0

\* "*.e" is the first extension the host's filter k lists
ListsFirst(k, e) == PyFind(k, <<"*", ".">>) >= 0 /\ PyFind(k, <<"*", ".">> \o e \o <<" ">>) = PyFind(k, <<"*", ".">>)

\* the last call wrote a file of that driver at that path and returned the
\* layer opened from it, named by the base name of the path
WroteAndOpened(path, driver) ==
    /\ ret.result.exc = ""
    /\ ret.writer # None
    /\ ret.writer[1].filename = path
    /\ ret.writer[1].driver = driver
    /\ <<path, driver>> \in disk
    /\ ret.result.value[1] = QgsVectorLayer(path, basename(path), "ogr", TRUE)

FieldTypeOf(t) ==
    CASE t = "str" -> "QVariant.String"
      [] t = "float" -> "QVariant.Double"
      [] t = "int" -> "QVariant.Int"
      [] t = "bool" -> "QVariant.Bool"
      [] OTHER -> "QVariant.String"

CountOf(s, sub) ==
    Cardinality({i \in 0..(Len(s) - Len(sub)) : SubSeq(s, i + 1, i + Len(sub)) = sub})

\* C5: new_vector_layer called with filename None writes no file and returns
\* a memory layer whose descriptor starts with the label of the geometry
\* type, holds the authority code of the CRS when and only when the CRS is
\* valid, and holds one declaration per field of the field list.
C5_MemoryLayerDescriptor ==
    (ret.op = "new_vector_layer" /\ ret.filename = None) =>
        /\ ret.result.exc = ""
        /\ ret.writer = None
        /\ disk = ret.before
        /\ LET layer == ret.result.value[1]
               uri == layer.source
               label == GEOM_TYPE_MAP[ret.geometryType]
               crsValid == IF ret.crs.isString THEN ret.crs.authid \in KnownAuthIds
                           ELSE ret.crs.valid
           IN /\ layer.provider = "memory"
              /\ SubSeq(uri, 1, Len(label)) = label
              /\ crsValid <=> (CountOf(uri, <<"c", "r", "s", "=">>) = 1)
              /\ crsValid => CountOf(uri, <<"c", "r", "s", "=">> \o ret.crs.authid) = 1
              /\ CountOf(uri, <<"f", "i", "e", "l", "d", "=">>) = Len(ret.fields.items)

\* the geometry type each wrapper fixes
WrapperGeometry ==
    [op \in {"new_points_layer", "new_lines_layer", "new_polygons_layer"} |->
        CASE op = "new_points_layer" -> "WKBPoint"
          [] op = "new_lines_layer" -> "WKBLineString"
          [] op = "new_polygons_layer" -> "WKBPolygon"]

\* C6: new_points_layer, new_lines_layer and new_polygons_layer return (or
\* raise) what new_vector_layer does, called with the same filename, fields,
\* CRS and encoding on the same disk and the geometry type fixed to point,
\* line-string and polygon.
C6_WrappersAgreeWithFactory ==
    ret.op \in DOMAIN WrapperGeometry =>
        LET expected == new_vector_layer(ret.filename, ret.fields, WrapperGeometry[ret.op],
                                         ret.crs, ret.encoding, drivers, ret.before)
        IN /\ ret.result.exc = expected.result.exc
           /\ ret.result.value = expected.result.value
           /\ disk = expected.disk

-----------------------------------------------------------------------------
(* Properties of the layer loader (SpecLoader) *)

\* C2: load_layer returns the vector layer when the vector interpretation
\* of the path is valid, otherwise the raster layer when the raster
\* interpretation is valid; it raises the load error, whose message ends
\* with the path, exactly when neither is valid; a layer it returns is valid.
C2_VectorThenRasterElseError ==
    ret.op = "load_layer" =>
        LET vectorValid == fs[ret.filename] \in {"vector", "both"}
            rasterValid == fs[ret.filename] \in {"raster", "both"}
            r == ret.result
        IN /\ vectorValid =>
                 (r.exc = "" /\ r.value[1].cls = "QgsVectorLayer"
                    /\ r.value[1].source = ret.filename)
           /\ (~vectorValid /\ rasterValid) =>
                 (r.exc = "" /\ r.value[1].cls = "QgsRasterLayer"
                    /\ r.value[1].source = ret.filename)
           /\ (~vectorValid /\ ~rasterValid) <=> (r.exc = "RuntimeError")
           /\ r.exc \in {"", "RuntimeError"}
           /\ r.exc = "RuntimeError" =>
                 PyFrom(r.msg, Len(r.msg) - Len(ret.filename)) = ret.filename
           /\ r.exc = "" => r.value[1].valid

\* a load of a path neither driver opens has raised the load error
C2_Witness ==
    /\ ret.op = "load_layer"
    /\ fs[ret.filename] = "none"
    /\ ret.result.exc = "RuntimeError"

\* no other thread is inside load_layer_no_crs_dialog
Alone(t) == \A u \in Threads \ {t} : threads[u].pc = "idle"

Loadable(path) == fs[path] # "none"

\* C3: in a call of load_layer_no_crs_dialog on a path that loads, run with
\* no other call in progress, the setting is empty while the load step runs,
\* and the call ends by returning the layer with the setting equal to the
\* value it had before the call.
C3_SettingClearedThenRestored ==
    \A t \in Threads :
        Alone(t) =>
            /\ threads[t].pc = "l179" => settings = ""
            /\ (threads[t].pc = "done" /\ Loadable(threads[t].filename)) =>
                  /\ threads[t].outcome[1].exc = ""
                  /\ threads[t].outcome[1].value[1].source = threads[t].filename
                  /\ threads[t].outcome[1].value[1].valid
                  /\ settings = threads[t].entry

\* C9: a call of load_layer_no_crs_dialog on a path neither driver opens,
\* run with no other call in progress, ends by raising the load error, and
\* leaves the setting at the cleared (empty) value.
C9_FailedLoadLeavesSettingCleared ==
    \A t \in Threads :
        (Alone(t) /\ threads[t].pc = "done" /\ ~Loadable(threads[t].filename)) =>
            /\ threads[t].outcome[1].exc = "RuntimeError"
            /\ settings = ""

\* C10, the runs the race is claimed for: when the calls of two threads on
\* paths that load have both ended, both have returned their layer.
C10_BothConcurrentCallsReturn ==
    \A t, u \in Threads :
        (/\ t # u
         /\ threads[t].pc = "done" /\ Loadable(threads[t].filename)
         /\ threads[u].pc = "done" /\ Loadable(threads[u].filename)) =>
            /\ threads[t].outcome[1].exc = ""
            /\ threads[u].outcome[1].exc = ""

\* no call of load_layer_no_crs_dialog gets past its first line, so the
\* setting is never written
NoCallPassesLine176 ==
    \A t \in Threads :
        /\ threads[t].pc \in {"idle", "l176", "done"}
        /\ threads[t].pc = "done" => threads[t].outcome[1].exc = "NameError"
        /\ threads[t].pc # "idle" => settings = threads[t].entry

=============================================================================
